---- MODULE Spec2Model ----
(***************************************************************************)
(* A model of DataPipeline (brazillain_ecommerce_etl.py): the layered      *)
(* store (bronze / silver / gold parquet files), the eight stages of       *)
(* DataPipeline.run and the pandas operations they are written with.       *)
(*                                                                         *)
(* A table is a record [cols, rows]: cols is the set of column names and   *)
(* rows a sequence of functions from cols to values.  Floats are modelled  *)
(* as integers, timestamps as integer ticks (TicksPerDay ticks to a day),  *)
(* a quotient as the pair [num, den].                                      *)
(*                                                                         *)
(* The id and text columns are taken to be of object dtype and the amount  *)
(* columns numeric, as read_csv reads the Olist files; the exceptions      *)
(* pandas raises on a column of another dtype (.str on a float column, a   *)
(* merge of an object key with a float key) are not modelled.  They stop   *)
(* a stage that the model lets complete and change no table it writes.     *)
(***************************************************************************)
EXTENDS Integers, Sequences, FiniteSets, TLC

VARIABLES source, store, pc, status, pending, error, clock, executed

vars == <<source, store, pc, status, pending, error, clock, executed>>

---------------------------------------------------------------------------
(* Bounds of the model *)

\* most rows of a source file
MaxRows == 2
\* timestamps of the source files are the ticks 0..MaxTime
MaxTime == 3
\* ticks of one calendar day
TicksPerDay == 2

---------------------------------------------------------------------------
(* Values *)

\* a missing numeric value (numpy NaN)
NaN == -99
\* a missing timestamp (pandas NaT), what errors='coerce' produces
NaT == -98
\* a date string of the source that does not parse
Garbage == -1
\* a missing string value (None in an object column)
None == "None"

StrCols == {"order_id", "customer_id", "customer_city", "customer_state"}
TimeCols == {"order_purchase_timestamp", "order_approved_at",
             "order_delivered_carrier_date", "order_delivered_customer_date",
             "date"}

\* pd.isna for a value of column c
IsNull(c, v) ==
    IF c \in StrCols THEN v = None
    ELSE IF c \in TimeCols THEN v = NaT
    ELSE v = NaN

NullOf(c) ==
    IF c \in StrCols THEN None
    ELSE IF c \in TimeCols THEN NaT
    ELSE NaN

\* the file or table does not exist
Absent == [kind |-> "absent"]
\* a parquet file that was opened for writing and never completed
Partial == [kind |-> "partial"]

Table(cols, rows) == [kind |-> "table", cols |-> cols, rows |-> rows]

IsTable(t) == t.kind = "table"

\* the result of a stage before its write: a table, or the exception raised
Ok(df) == [ok |-> TRUE, err |-> "none", df |-> df]
Raise(e) == [ok |-> FALSE, err |-> e, df |-> Absent]

\* pd.read_parquet(path), pd.read_csv(path)
ReadError(t) == IF t.kind = "absent" THEN "FileNotFoundError" ELSE "ArrowInvalid"

---------------------------------------------------------------------------
(* pandas operations *)

RECURSIVE SeqSum(_)
SeqSum(s) == IF s = <<>> THEN 0 ELSE Head(s) + SeqSum(Tail(s))

Range(s) == {s[i] : i \in 1..Len(s)}

\* the key of a row over the columns of subset, as a function
Key(row, subset) == [c \in subset |-> row[c]]

\* DataFrame.drop_duplicates(subset=...), keep='first': rows are visited in
\* order and a row is kept when its key was not seen before; missing values
\* of a key column are equal to each other
RECURSIVE DedupFrom(_, _, _)
DedupFrom(rows, subset, seen) ==
    IF rows = <<>> THEN <<>>
    ELSE LET k == Key(Head(rows), subset)
         IN  IF k \in seen
             THEN DedupFrom(Tail(rows), subset, seen)
             ELSE <<Head(rows)>> \o DedupFrom(Tail(rows), subset, seen \cup {k})

\* drop_duplicates with missing key values never equal to each other (the
\* way SQL compares them): a row with a missing key value is always kept
DropDuplicatesNullsDistinct(rows, subset) ==
    LET HasNull(r) == \E c \in subset : IsNull(c, r[c])
        First1(i) == \A j \in 1..(i - 1) :
                        Key(rows[j], subset) # Key(rows[i], subset)
        kept == SelectSeq([i \in 1..Len(rows) |-> i],
                          LAMBDA i : HasNull(rows[i]) \/ First1(i))
    IN  [k \in 1..Len(kept) |-> rows[kept[k]]]

\* drop_duplicates(keep='last')
DropDuplicatesKeepLast(rows, subset) ==
    LET Last1(i) == \A j \in (i + 1)..Len(rows) :
                       Key(rows[j], subset) # Key(rows[i], subset)
        kept == SelectSeq([i \in 1..Len(rows) |-> i], Last1)
    IN  [k \in 1..Len(kept) |-> rows[kept[k]]]

DropDuplicates(rows, subset) == DedupFrom(rows, subset, {})

\* df[col] = vals, col a new or an existing column, vals a value for each row
WithCol(rows, col, vals) ==
    [i \in 1..Len(rows) |-> (col :> vals[i]) @@ rows[i]]

\* pd.to_datetime(v, errors='coerce')
ToDatetime(v) == IF v \in 0..MaxTime THEN v ELSE NaT

\* (delivered - purchase).dt.days: the floor of the difference in days
DaysBetween(delivered, purchase) ==
    IF delivered = NaT \/ purchase = NaT THEN NaN
    ELSE (delivered - purchase) \div TicksPerDay

\* price >= 0 in the place of price > 0
GtZeroInclusive(v) == v # NaN /\ v >= 0

\* Series > 0 and Series >= 0: a comparison with NaN is False
GtZero(v) == v # NaN /\ v > 0
GeZero(v) == v # NaN /\ v >= 0

\* price + freight_value
Add(a, b) == IF a = NaN \/ b = NaN THEN NaN ELSE a + b

\* Series.str.upper(): missing values stay missing
Upper(s) ==
    CASE s = "sp" -> "SP"
      [] s = "rj" -> "RJ"
      [] OTHER -> s

\* Series.dt.date
DateOf(t) == IF t = NaT THEN NaT ELSE t \div TicksPerDay

\* a / b on floats: b = 0 gives inf or NaN, never an exception
Div(a, b) == [num |-> a, den |-> b]

EmptyRow == [c \in {} |-> NaN]

\* the columns that merge renames: the non-key columns of both frames
\* (loaded_at is the only one the pipeline's tables share)
Overlap(lcols, rcols, key) == (lcols \cap rcols) \ {key}

MergedCols(lcols, rcols, key) ==
    LET ov == Overlap(lcols, rcols, key)
    IN  (lcols \ ov) \cup (rcols \ ov)
          \cup (IF "loaded_at" \in ov THEN {"loaded_at_x", "loaded_at_y"} ELSE {})

\* one row of the merge: l's columns, r's columns, the shared ones suffixed
JoinRow(l, r, lcols, rcols, key) ==
    LET ov == Overlap(lcols, rcols, key)
    IN  (IF "loaded_at" \in ov
         THEN ("loaded_at_x" :> l["loaded_at"]) @@ ("loaded_at_y" :> r["loaded_at"])
         ELSE EmptyRow)
        @@ [c \in lcols \ ov |-> l[c]]
        @@ [c \in rcols \ (ov \cup {key}) |-> r[c]]

NullRow(cols) == [c \in cols |-> NullOf(c)]

\* the rows of the merge that left row l gives: one per right row with the
\* same key (missing keys match each other); a left merge keeps an unmatched
\* l with the right columns missing
RowMatches(l, right, lcols, key, how) ==
    LET m == SelectSeq(right.rows, LAMBDA r : r[key] = l[key])
    IN  IF m = <<>>
        THEN IF how = "left"
             THEN <<JoinRow(l, NullRow(right.cols), lcols, right.cols, key)>>
             ELSE <<>>
        ELSE [i \in 1..Len(m) |-> JoinRow(l, m[i], lcols, right.cols, key)]

RECURSIVE MergeRows(_, _, _, _, _)
MergeRows(lrows, right, lcols, key, how) ==
    IF lrows = <<>> THEN <<>>
    ELSE RowMatches(Head(lrows), right, lcols, key, how)
           \o MergeRows(Tail(lrows), right, lcols, key, how)

\* left.merge(right, on=key, how=how)
Merge(left, right, key, how) ==
    Table(MergedCols(left.cols, right.cols, key),
          MergeRows(left.rows, right, left.cols, key, how))

\* the group keys of groupby(col): the values of col that are not missing
\* (dropna=True), sorted (sort=True); universe lists every value in order
GroupKeys(rows, col, universe) ==
    SelectSeq(universe, LAMBDA k : \E i \in 1..Len(rows) : rows[i][col] = k)

Group(rows, col, k) == SelectSeq(rows, LAMBDA r : r[col] = k)

\* the values of col in rows that are not missing
NonNull(rows, col) ==
    LET g == SelectSeq(rows, LAMBDA r : ~IsNull(col, r[col]))
    IN  [i \in 1..Len(g) |-> g[i][col]]

\* agg 'nunique': the number of distinct values, missing ones excluded
NUnique(rows, col) == Cardinality(Range(NonNull(rows, col)))

\* agg 'sum': missing values skipped
Sum(rows, col) == SeqSum(NonNull(rows, col))

\* the mean with a missing value counted as zero
MeanNullsAsZero(rows, col) == Div(Sum(rows, col), Len(rows))

\* agg 'mean': missing values skipped; NaN (0 / 0) when there is none
Mean(rows, col) == LET v == NonNull(rows, col) IN Div(SeqSum(v), Len(v))

\* agg 'first': the first value that is not missing
First(rows, col) ==
    LET v == NonNull(rows, col) IN IF v = <<>> THEN NullOf(col) ELSE v[1]

---------------------------------------------------------------------------
(* The stages of DataPipeline *)

\* every customer_id of the sources, in sorted order
CustomerIds == <<"c1", "c2">>
\* every calendar date of the sources, in sorted order
Dates == [i \in 1..((MaxTime \div TicksPerDay) + 1) |-> i - 1]

date_cols == {"order_purchase_timestamp", "order_approved_at",
              "order_delivered_carrier_date", "order_delivered_customer_date"}

\* load_raw_data up to its write: the csv file read, loaded_at stamped
load_raw_data(file, now) ==
    IF ~IsTable(file) THEN Raise(ReadError(file))
    ELSE Ok(Table(file.cols \cup {"loaded_at"},
                  WithCol(file.rows, "loaded_at", [i \in 1..Len(file.rows) |-> now])))

\* clean_orders up to its write
clean_orders(bronze) ==
    IF ~IsTable(bronze) THEN Raise(ReadError(bronze))
    ELSE IF "order_id" \notin bronze.cols THEN Raise("KeyError")
    ELSE
      LET deduped == DropDuplicates(bronze.rows, {"order_id"})
          parsed == [i \in 1..Len(deduped) |->
                       [c \in bronze.cols |->
                          IF c \in date_cols THEN ToDatetime(deduped[i][c])
                          ELSE deduped[i][c]]]
      IN  IF ~({"order_delivered_customer_date", "order_purchase_timestamp"}
                 \subseteq bronze.cols)
          THEN Raise("KeyError")
          ELSE Ok(Table(bronze.cols \cup {"days_to_deliver"},
                        WithCol(parsed, "days_to_deliver",
                                [i \in 1..Len(parsed) |->
                                   DaysBetween(parsed[i]["order_delivered_customer_date"],
                                               parsed[i]["order_purchase_timestamp"])])))

\* clean_items up to its write
clean_items(bronze) ==
    IF ~IsTable(bronze) THEN Raise(ReadError(bronze))
    ELSE IF ~({"order_id", "order_item_id", "price", "freight_value"} \subseteq bronze.cols)
    THEN Raise("KeyError")
    ELSE
      LET deduped == DropDuplicates(bronze.rows, {"order_id", "order_item_id"})
          priced == SelectSeq(deduped, LAMBDA r : GtZero(r["price"]))
          shipped == SelectSeq(priced, LAMBDA r : GeZero(r["freight_value"]))
      IN  Ok(Table(bronze.cols \cup {"total_price"},
                   WithCol(shipped, "total_price",
                           [i \in 1..Len(shipped) |->
                              Add(shipped[i]["price"], shipped[i]["freight_value"])])))

\* clean_customers up to its write
clean_customers(bronze) ==
    IF ~IsTable(bronze) THEN Raise(ReadError(bronze))
    ELSE IF "customer_id" \notin bronze.cols THEN Raise("KeyError")
    ELSE
      LET deduped == DropDuplicates(bronze.rows, {"customer_id"})
      IN  Ok(Table(bronze.cols,
                   [i \in 1..Len(deduped) |->
                      [c \in bronze.cols |->
                         IF c \in {"customer_city", "customer_state"}
                         THEN Upper(deduped[i][c])
                         ELSE deduped[i][c]]]))

\* orders.merge(items, on='order_id', how='left')
OrderItemsLeft(orders, items) == Merge(orders, items, "order_id", "left")

\* df.merge(customers, on='customer_id'), an inner merge
WithCustomersInner(df, customers) == Merge(df, customers, "customer_id", "inner")

\* orders.merge(items, on='order_id'): how defaults to 'inner'
OrderItems(orders, items) == Merge(orders, items, "order_id", "inner")

\* df.merge(customers, on='customer_id', how='left')
WithCustomers(df, customers) == Merge(df, customers, "customer_id", "left")

\* daily_metrics up to its write
daily_metrics(orders, items) ==
    IF ~IsTable(orders) THEN Raise(ReadError(orders))
    ELSE IF ~IsTable(items) THEN Raise(ReadError(items))
    ELSE IF "order_id" \notin orders.cols \cap items.cols THEN Raise("KeyError")
    ELSE
      LET df == OrderItems(orders, items)
      IN  IF ~({"order_purchase_timestamp", "total_price", "days_to_deliver"}
                 \subseteq df.cols)
          THEN Raise("KeyError")
          ELSE
            LET dated == WithCol(df.rows, "date",
                                 [i \in 1..Len(df.rows) |->
                                    DateOf(df.rows[i]["order_purchase_timestamp"])])
                keys == GroupKeys(dated, "date", Dates)
            IN  Ok(Table({"date", "orders", "revenue", "avg_delivery_days"},
                         [k \in 1..Len(keys) |->
                            LET g == Group(dated, "date", keys[k])
                            IN  [date |-> keys[k],
                                 orders |-> NUnique(g, "order_id"),
                                 revenue |-> Sum(g, "total_price"),
                                 avg_delivery_days |-> Mean(g, "days_to_deliver")]]))

\* customer_stats up to its write
customer_stats(orders, items, customers) ==
    IF ~IsTable(orders) THEN Raise(ReadError(orders))
    ELSE IF ~IsTable(items) THEN Raise(ReadError(items))
    ELSE IF ~IsTable(customers) THEN Raise(ReadError(customers))
    ELSE IF "order_id" \notin orders.cols \cap items.cols THEN Raise("KeyError")
    ELSE
      LET oi == OrderItems(orders, items)
      IN  IF "customer_id" \notin oi.cols \cap customers.cols THEN Raise("KeyError")
          ELSE
            LET df == WithCustomers(oi, customers)
            IN  IF ~({"total_price", "customer_state"} \subseteq df.cols)
                THEN Raise("KeyError")
                ELSE
                  LET keys == GroupKeys(df.rows, "customer_id", CustomerIds)
                  IN  Ok(Table({"customer_id", "num_orders", "total_spent",
                                "state", "avg_order_value"},
                               [k \in 1..Len(keys) |->
                                  LET g == Group(df.rows, "customer_id", keys[k])
                                      n == NUnique(g, "order_id")
                                      t == Sum(g, "total_price")
                                  IN  [customer_id |-> keys[k],
                                       num_orders |-> n,
                                       total_spent |-> t,
                                       state |-> First(g, "customer_state"),
                                       avg_order_value |-> Div(t, n)]]))

---------------------------------------------------------------------------
(* The run *)

\* the stages of run, in the order of its calls
Stages == <<"ingest_orders", "ingest_order_items", "ingest_customers",
            "clean_orders", "clean_items", "clean_customers",
            "daily_metrics", "customer_stats">>

\* the table each stage writes
Target == <<"bronze/orders", "bronze/order_items", "bronze/customers",
            "silver/orders", "silver/order_items", "silver/customers",
            "gold/daily_sales", "gold/customer_stats">>

Tables == Range(Target)

\* the stage pc is at, from its reads to the point where it opens its output
Compute(n) ==
    CASE n = 1 -> load_raw_data(source["orders"], clock)
      [] n = 2 -> load_raw_data(source["order_items"], clock)
      [] n = 3 -> load_raw_data(source["customers"], clock)
      [] n = 4 -> clean_orders(store["bronze/orders"])
      [] n = 5 -> clean_items(store["bronze/order_items"])
      [] n = 6 -> clean_customers(store["bronze/customers"])
      [] n = 7 -> daily_metrics(store["silver/orders"], store["silver/order_items"])
      [] n = 8 -> customer_stats(store["silver/orders"], store["silver/order_items"],
                                 store["silver/customers"])

\* Stage with the exception of a failing stage swallowed: run goes on to the
\* next stage
StageSwallowed(n) ==
    /\ status = "running"
    /\ pc = n
    /\ executed' = Append(executed, Stages[n])
    /\ clock' = IF n <= 3 THEN clock + 1 ELSE clock
    /\ LET r == Compute(n)
       IN  IF r.ok
           THEN /\ status' = "writing"
                /\ pending' = r.df
                /\ store' = [store EXCEPT ![Target[n]] = Partial]
                /\ error' = error
                /\ pc' = pc
           ELSE /\ status' = IF n = Len(Stages) THEN "done" ELSE "running"
                /\ pc' = pc + 1
                /\ error' = r.err
                /\ UNCHANGED <<pending, store>>
    /\ UNCHANGED source

\* a stage runs up to df.to_parquet(output), which opens the output file
\* (truncating it) before any row is written; a stage that raises leaves
\* run with no stage after it started
Stage(n) ==
    /\ status = "running"
    /\ pc = n
    /\ executed' = Append(executed, Stages[n])
    /\ clock' = IF n <= 3 THEN clock + 1 ELSE clock
    /\ LET r == Compute(n)
       IN  IF r.ok
           THEN /\ status' = "writing"
                /\ pending' = r.df
                /\ store' = [store EXCEPT ![Target[n]] = Partial]
                /\ error' = error
           ELSE /\ status' = "failed"
                /\ error' = r.err
                /\ UNCHANGED <<pending, store>>
    /\ UNCHANGED <<source, pc>>

\* to_parquet returns: the file holds the whole table, the next call of run
WriteDone ==
    /\ status = "writing"
    /\ store' = [store EXCEPT ![Target[pc]] = pending]
    /\ pending' = Absent
    /\ pc' = pc + 1
    /\ status' = IF pc = Len(Stages) THEN "done" ELSE "running"
    /\ UNCHANGED <<source, error, clock, executed>>

\* to_parquet raises while it writes (the disk is full, the process is
\* killed): the exception leaves run, the output file stays as it is
WriteFail ==
    /\ status = "writing"
    /\ status' = "failed"
    /\ error' = "OSError"
    /\ pending' = Absent
    /\ UNCHANGED <<source, store, pc, clock, executed>>

\* the sequences over S of at most n elements
SeqsUpTo(S, n) == UNION {[1..k -> S] : k \in 0..n}

\* a date string of a source file: missing, not a date, or a timestamp
RawDates == {NaN, Garbage} \cup (0..MaxTime)

OrdersCols == {"order_id", "customer_id"} \cup date_cols
ItemsCols == {"order_id", "order_item_id", "price", "freight_value"}
CustomersCols == {"customer_id", "customer_city", "customer_state"}

OrderRow(o, c, p, d) ==
    [order_id |-> o, customer_id |-> c, order_purchase_timestamp |-> p,
     order_approved_at |-> Garbage, order_delivered_carrier_date |-> NaN,
     order_delivered_customer_date |-> d]

ItemRow(o, n, p, f) ==
    [order_id |-> o, order_item_id |-> n, price |-> p, freight_value |-> f]

CustomerRow(c, city, st) ==
    [customer_id |-> c, customer_city |-> city, customer_state |-> st]

\* a csv file with the columns cols of the rows
Csv(cols, rows) ==
    Table(cols, [i \in 1..Len(rows) |-> [c \in cols |-> rows[i][c]]])

DefaultOrders == Csv(OrdersCols, <<OrderRow("o1", "c1", 0, MaxTime)>>)
DefaultItems == Csv(ItemsCols, <<ItemRow("o1", 1, 5, 2)>>)
DefaultCustomers == Csv(CustomersCols, <<CustomerRow("c1", "rio", "sp")>>)

Source(o, i, c) == [orders |-> o, order_items |-> i, customers |-> c]

\* orders files with repeated and missing order_id
KeyedOrders ==
    {Source(Csv(OrdersCols, rows), DefaultItems, DefaultCustomers) :
       rows \in SeqsUpTo({OrderRow(o, c, 1, MaxTime) :
                            o \in {"o1", "o2", None}, c \in {"c1", "c2"}}, MaxRows)}

\* order_items files with repeated and missing keys, bad and missing amounts
KeyedItems ==
    {Source(DefaultOrders, Csv(ItemsCols, rows), DefaultCustomers) :
       rows \in SeqsUpTo({ItemRow(k[1], k[2], a[1], a[2]) :
                            k \in {<<"o1", 1>>, <<"o1", 2>>, <<None, 1>>},
                            a \in {<<5, 0>>, <<0, 2>>, <<5, -1>>,
                                   <<NaN, 2>>, <<5, NaN>>}}, MaxRows)}

\* customers files with repeated and missing customer_id, with and without
\* the city and state columns
KeyedCustomers ==
    {Source(DefaultOrders, DefaultItems, Csv(cols, rows)) :
       cols \in {CustomersCols, CustomersCols \ {"customer_city"},
                 CustomersCols \ {"customer_state"}},
       rows \in SeqsUpTo({CustomerRow(c, "rio", st) :
                            c \in {"c1", None},
                            st \in {"sp", "RJ", None}}, MaxRows)}

\* orders files of one row with every pair of date strings, with and
\* without each date column
DatedOrders ==
    {Source(Csv(cols, <<OrderRow("o1", "c1", p, d)>>), DefaultItems, DefaultCustomers) :
       cols \in {OrdersCols,
                 OrdersCols \ {"order_approved_at"},
                 OrdersCols \ {"order_purchase_timestamp"},
                 OrdersCols \ {"order_delivered_customer_date"}},
       p \in RawDates, d \in RawDates}

\* orders and items whose order_id match, do not match or are missing
JoinedSources ==
    {Source(Csv(OrdersCols, o), Csv(ItemsCols, i), DefaultCustomers) :
       o \in SeqsUpTo({OrderRow("o1", "c1", 0, MaxTime),
                       OrderRow("o2", "c1", 1, NaN),
                       OrderRow("o2", "c2", MaxTime, 0),
                       OrderRow(None, "c2", 0, 0)}, MaxRows),
       i \in SeqsUpTo({ItemRow("o1", 1, 5, 2), ItemRow("o2", 1, 3, 0),
                       ItemRow("o2", 2, 0, 2), ItemRow(None, 1, 4, 1)}, MaxRows)}

\* orders whose customer is the one row of the customers file, is not, or
\* is missing
CustomerSources ==
    {Source(Csv(OrdersCols, o),
            Csv(ItemsCols, <<ItemRow("o1", 1, 5, 2), ItemRow("o2", 1, 3, 0)>>),
            Csv(CustomersCols, c)) :
       o \in SeqsUpTo({OrderRow("o1", "c1", 0, MaxTime),
                       OrderRow("o2", "c1", 1, NaN),
                       OrderRow("o2", "c2", 1, 1),
                       OrderRow("o2", None, 1, 1)}, MaxRows),
       c \in SeqsUpTo({CustomerRow(k, "rio", st) :
                         k \in {"c1", None}, st \in {"sp", None}}, 1)}

\* the three files with a repeated key and a repeated missing key each
DuplicatedSources ==
    {Source(Csv(OrdersCols, <<OrderRow("o1", "c1", 0, MaxTime),
                              OrderRow("o1", "c2", 1, 1),
                              OrderRow(None, "c1", 0, 1),
                              OrderRow(None, "c2", 1, NaN)>>),
            Csv(ItemsCols, <<ItemRow("o1", 1, 5, 2), ItemRow("o1", 1, 3, 0),
                             ItemRow(None, NaN, 4, 1), ItemRow(None, NaN, 2, 2)>>),
            Csv(CustomersCols, <<CustomerRow("c1", "rio", "sp"),
                                 CustomerRow("c1", "rio", "rj"),
                                 CustomerRow(None, "rio", "sp"),
                                 CustomerRow(None, "rio", None)>>))}

\* two orders of one day, the first with two items and the second with one
WeightedSources ==
    {Source(Csv(OrdersCols, <<OrderRow("o1", "c1", 0, MaxTime),
                              OrderRow("o2", "c2", 1, d)>>),
            Csv(ItemsCols, <<ItemRow("o1", 1, 5, 2), ItemRow("o1", 2, 3, 0),
                             ItemRow("o2", 1, 4, 1)>>),
            DefaultCustomers) : d \in {1, NaN}}

\* a source directory with one of the three files missing
MissingSources ==
    {Source(Absent, DefaultItems, DefaultCustomers),
     Source(DefaultOrders, Absent, DefaultCustomers),
     Source(DefaultOrders, DefaultItems, Absent)}

Sources ==
    KeyedOrders \cup KeyedItems \cup KeyedCustomers \cup DatedOrders
      \cup JoinedSources \cup CustomerSources \cup DuplicatedSources
      \cup WeightedSources \cup MissingSources

\* __init__ made the three layer directories; run(source_dir) is about to
\* make its first call
Init ==
    /\ source \in Sources
    /\ store = [t \in Tables |-> Absent]
    /\ pc = 1
    /\ status = "running"
    /\ pending = Absent
    /\ error = "none"
    /\ clock = 0
    /\ executed = <<>>

IngestOrders == Stage(1)
IngestOrderItems == Stage(2)
IngestCustomers == Stage(3)
CleanOrders == Stage(4)
CleanItems == Stage(5)
CleanCustomers == Stage(6)
DailyMetrics == Stage(7)
CustomerStats == Stage(8)

Next ==
    \/ IngestOrders
    \/ IngestOrderItems
    \/ IngestCustomers
    \/ CleanOrders
    \/ CleanItems
    \/ CleanCustomers
    \/ DailyMetrics
    \/ CustomerStats
    \/ WriteDone
    \/ WriteFail

Spec == Init /\ [][Next]_vars

---------------------------------------------------------------------------
(* Helpers of the properties *)

silverOrders == store["silver/orders"]
silverItems == store["silver/order_items"]
silverCustomers == store["silver/customers"]
bronzeOrders == store["bronze/orders"]
bronzeItems == store["bronze/order_items"]
bronzeCustomers == store["bronze/customers"]
dailySales == store["gold/daily_sales"]
customerStats == store["gold/customer_stats"]

Prefix(s, n) == SubSeq(s, 1, n)

\* the sum of f over its domain S
RECURSIVE SumFn(_, _)
SumFn(S, f) ==
    IF S = {} THEN 0
    ELSE LET x == CHOOSE y \in S : TRUE IN f[x] + SumFn(S \ {x}, f)

\* the pairs <<i, j>> of a row i of silver/orders and a row j of
\* silver/order_items with the same order_id (two missing ones match, as
\* merge matches them)
Matches ==
    {p \in (1..Len(silverOrders.rows)) \X (1..Len(silverItems.rows)) :
       silverOrders.rows[p[1]]["order_id"] = silverItems.rows[p[2]]["order_id"]}

\* timestamp t is of calendar day d
OnDate(t, d) == t # NaT /\ d * TicksPerDay <= t /\ t < (d + 1) * TicksPerDay

MatchesOn(d) ==
    {p \in Matches : OnDate(silverOrders.rows[p[1]]["order_purchase_timestamp"], d)}

MatchesOf(c) == {p \in Matches : silverOrders.rows[p[1]]["customer_id"] = c}

\* the order_id of the pairs P that are not missing
OrdersIn(P) == {silverOrders.rows[p[1]]["order_id"] : p \in P} \ {None}

SpentIn(P) == SumFn(P, [p \in P |-> silverItems.rows[p[2]]["total_price"]])

---------------------------------------------------------------------------
(* Properties *)

\* C1: run calls the eight stages in the fixed order ingest(orders),
\* ingest(order_items), ingest(customers), clean_orders, clean_items,
\* clean_customers, daily_metrics, customer_stats; a table is written only
\* by a stage that was called; and once a stage has failed the run is over:
\* no further stage is called and no table is written any more.
C1_RunOrderAndAbort ==
    /\ [](/\ executed = Prefix(Stages, Len(executed))
          /\ \A n \in 1..Len(Stages) :
               store[Target[n]] # Absent => n <= Len(executed)
          /\ status = "done" => executed = Stages
          /\ error # "none" => status = "failed" /\ Len(executed) = pc)
    /\ [][status = "failed" => UNCHANGED <<store, executed, status>>]_vars

\* a run that clean_orders aborted: the three ingests and clean_orders were
\* called, nothing of silver or gold was written
C1_Witness ==
    /\ status = "failed"
    /\ error = "KeyError"
    /\ executed = Prefix(Stages, 4)
    /\ \A n \in 4..Len(Stages) : store[Target[n]] = Absent
    /\ \A n \in 1..3 : IsTable(store[Target[n]])

\* C2: every layer write is an atomic replacement: whenever no write is in
\* progress (between two stages, after a run that completed and after a run
\* whose stage failed part-way through its write) every table of the store
\* is complete or absent, never partially written.
C2_AtomicWrites ==
    status # "writing" => \A t \in Tables : store[t] # Partial

\* C5: clean_orders fails only when bronze/orders does not exist: a run that
\* clean_orders aborted before its write has FileNotFoundError and no
\* bronze/orders table, whatever the date columns and values of the table.
C5_CleanOrdersNeverFailsOnValues ==
    (status = "failed" /\ pc = 4 /\ error # "OSError")
      => (error = "FileNotFoundError" /\ ~IsTable(bronzeOrders))

\* the indices of rows whose key over subset occurs at no earlier index
FirstOccurrences(rows, subset) ==
    {i \in 1..Len(rows) :
       \A j \in 1..(i - 1) : \E c \in subset : rows[j][c] # rows[i][c]}

\* the rows at the indices S, in the order of rows
RowsAt(rows, S) ==
    LET idx == SelectSeq([i \in 1..Len(rows) |-> i], LAMBDA i : i \in S)
    IN  [k \in 1..Len(idx) |-> rows[idx[k]]]

\* row r without the columns outside cols
Restrict(r, cols) == [c \in cols |-> r[c]]

\* C3: once a cleaning stage has written its table, no two rows of
\* silver/orders have the same order_id, no two rows of silver/order_items
\* the same (order_id, order_item_id) and no two rows of silver/customers
\* the same customer_id, missing values counted as equal to each other.
C3_SilverKeysUnique ==
    /\ IsTable(silverOrders) =>
         \A i, j \in 1..Len(silverOrders.rows) :
            i # j => silverOrders.rows[i]["order_id"] # silverOrders.rows[j]["order_id"]
    /\ IsTable(silverItems) =>
         \A i, j \in 1..Len(silverItems.rows) :
            i # j => \/ silverItems.rows[i]["order_id"] # silverItems.rows[j]["order_id"]
                     \/ silverItems.rows[i]["order_item_id"]
                          # silverItems.rows[j]["order_item_id"]
    /\ IsTable(silverCustomers) =>
         \A i, j \in 1..Len(silverCustomers.rows) :
            i # j => silverCustomers.rows[i]["customer_id"]
                       # silverCustomers.rows[j]["customer_id"]

\* the three silver tables written from bronze tables that each repeat a
\* key and a missing key
C3_Witness ==
    /\ IsTable(silverOrders) /\ IsTable(silverItems) /\ IsTable(silverCustomers)
    /\ \E i, j \in 1..Len(bronzeOrders.rows) :
          /\ i # j
          /\ bronzeOrders.rows[i]["order_id"] = None
          /\ bronzeOrders.rows[j]["order_id"] = None
    /\ \E i, j \in 1..Len(bronzeItems.rows) :
          /\ i # j
          /\ bronzeItems.rows[i]["order_id"] = None
          /\ bronzeItems.rows[j]["order_id"] = None
          /\ bronzeItems.rows[i]["order_item_id"] = bronzeItems.rows[j]["order_item_id"]
    /\ \E i, j \in 1..Len(bronzeCustomers.rows) :
          /\ i # j
          /\ bronzeCustomers.rows[i]["customer_id"] = None
          /\ bronzeCustomers.rows[j]["customer_id"] = None
    /\ \E i \in 1..Len(silverOrders.rows) : silverOrders.rows[i]["order_id"] = None
    /\ \E i \in 1..Len(silverCustomers.rows) :
          silverCustomers.rows[i]["customer_id"] = None

\* C10: silver/orders has exactly one row for each distinct order_id of
\* bronze/orders (a missing order_id counted as one value); that row has
\* the values of the first bronze row with that order_id in every column
\* but the date columns, which hold that row's date where it parses and
\* NaT where it does not; and the rows are in the order of those first rows.
C10_FirstSeenDedup ==
    (IsTable(silverOrders) /\ IsTable(bronzeOrders)) =>
      LET b == bronzeOrders.rows
          s == silverOrders.rows
          ids == {b[i]["order_id"] : i \in 1..Len(b)}
          FirstIdx(o) == CHOOSE i \in 1..Len(b) :
                            /\ b[i]["order_id"] = o
                            /\ \A j \in 1..(i - 1) : b[j]["order_id"] # o
      IN  /\ {s[k]["order_id"] : k \in 1..Len(s)} = ids
          /\ Len(s) = Cardinality(ids)
          /\ \A k \in 1..Len(s) :
               LET f == b[FirstIdx(s[k]["order_id"])]
               IN  /\ \A c \in bronzeOrders.cols \ date_cols : s[k][c] = f[c]
                   /\ \A c \in bronzeOrders.cols \cap date_cols :
                        s[k][c] = IF f[c] \in 0..MaxTime THEN f[c] ELSE NaT
          /\ \A k, l \in 1..Len(s) :
               k < l => FirstIdx(s[k]["order_id"]) < FirstIdx(s[l]["order_id"])

\* silver/orders written from two bronze rows with the same order_id and
\* different customers: the row of the first is the one kept
C10_Witness ==
    /\ IsTable(silverOrders)
    /\ Len(bronzeOrders.rows) = 2
    /\ bronzeOrders.rows[1]["order_id"] = bronzeOrders.rows[2]["order_id"]
    /\ bronzeOrders.rows[1]["customer_id"] # bronzeOrders.rows[2]["customer_id"]
    /\ Len(silverOrders.rows) = 1
    /\ silverOrders.rows[1]["customer_id"] = bronzeOrders.rows[1]["customer_id"]

\* C4 as amended: silver/order_items is, in order, the first-occurrence row
\* of each (order_id, order_item_id) of bronze/order_items whose price is
\* present and > 0 and whose freight_value is present and >= 0, with
\* total_price = price + freight_value; a first-occurrence row whose price
\* or freight_value is missing is dropped like one with price <= 0 or
\* freight_value < 0.
C4_ItemsFilter ==
    (IsTable(silverItems) /\ IsTable(bronzeItems)) =>
      LET b == bronzeItems.rows
          s == silverItems.rows
          kept == {i \in FirstOccurrences(b, {"order_id", "order_item_id"}) :
                     /\ b[i]["price"] # NaN /\ b[i]["price"] > 0
                     /\ b[i]["freight_value"] # NaN /\ b[i]["freight_value"] >= 0}
      IN  /\ [k \in 1..Len(s) |-> Restrict(s[k], bronzeItems.cols)] = RowsAt(b, kept)
          /\ \A k \in 1..Len(s) :
               /\ s[k]["price"] # NaN /\ s[k]["price"] > 0
               /\ s[k]["freight_value"] # NaN /\ s[k]["freight_value"] >= 0
               /\ s[k]["total_price"] = s[k]["price"] + s[k]["freight_value"]

\* silver/order_items written from a row with a missing price and a good
\* row: only the good row is there
C4_Witness ==
    /\ IsTable(silverItems)
    /\ Len(bronzeItems.rows) = 2
    /\ bronzeItems.rows[1]["price"] = NaN
    /\ bronzeItems.rows[1]["order_item_id"] # bronzeItems.rows[2]["order_item_id"]
    /\ bronzeItems.rows[2]["price"] = 5 /\ bronzeItems.rows[2]["freight_value"] = 0
    /\ Len(silverItems.rows) = 1
    /\ silverItems.rows[1]["order_item_id"] = bronzeItems.rows[2]["order_item_id"]

\* C4: silver/order_items is, in order, the first-occurrence row of each
\* (order_id, order_item_id) of bronze/order_items minus precisely the rows
\* with price <= 0 or freight_value < 0, so that a row whose price or
\* freight_value is missing survives; and every row of silver/order_items
\* has price > 0 and freight_value >= 0.
C4_DropsExactlyNonPositive ==
    (IsTable(silverItems) /\ IsTable(bronzeItems)) =>
      LET b == bronzeItems.rows
          s == silverItems.rows
          dropped == {i \in FirstOccurrences(b, {"order_id", "order_item_id"}) :
                        \/ b[i]["price"] # NaN /\ b[i]["price"] <= 0
                        \/ b[i]["freight_value"] # NaN /\ b[i]["freight_value"] < 0}
          kept == FirstOccurrences(b, {"order_id", "order_item_id"}) \ dropped
      IN  /\ [k \in 1..Len(s) |-> Restrict(s[k], bronzeItems.cols)] = RowsAt(b, kept)
          /\ \A k \in 1..Len(s) :
               /\ s[k]["price"] # NaN /\ s[k]["price"] > 0
               /\ s[k]["freight_value"] # NaN /\ s[k]["freight_value"] >= 0

\* C6: the gold tables are made of the matched pairs of an order and an
\* item only: every row of gold/daily_sales has a date on which some order
\* has an item, counts the orders of that date that have an item and sums
\* the items of those orders; every row of gold/customer_stats is of a
\* customer one of whose orders has an item, counts the orders of that
\* customer that have an item and sums their items.  An order without an
\* item in silver/order_items adds to no row of either table.
C6_InnerJoin ==
    /\ IsTable(dailySales) =>
         \A k \in 1..Len(dailySales.rows) :
            LET g == dailySales.rows[k]
                P == MatchesOn(g["date"])
            IN  /\ P # {}
                /\ g["orders"] = Cardinality(OrdersIn(P))
                /\ g["revenue"] = SpentIn(P)
    /\ IsTable(customerStats) =>
         \A k \in 1..Len(customerStats.rows) :
            LET g == customerStats.rows[k]
                P == MatchesOf(g["customer_id"])
            IN  /\ P # {}
                /\ g["num_orders"] = Cardinality(OrdersIn(P))
                /\ g["total_spent"] = SpentIn(P)

\* both gold tables written when an order of silver/orders has lost its
\* only item to clean_items and another order of the same customer and day
\* has an item: the customer has one order, the day has one order
C6_Witness ==
    /\ IsTable(dailySales) /\ IsTable(customerStats)
    /\ \E i, i2 \in 1..Len(silverOrders.rows) :
          /\ \A j \in 1..Len(silverItems.rows) :
                silverItems.rows[j]["order_id"] # silverOrders.rows[i]["order_id"]
          /\ \E j \in 1..Len(bronzeItems.rows) :
                bronzeItems.rows[j]["order_id"] = silverOrders.rows[i]["order_id"]
          /\ silverOrders.rows[i]["order_purchase_timestamp"] # NaT
          /\ silverOrders.rows[i2]["customer_id"] = silverOrders.rows[i]["customer_id"]
          /\ \E j \in 1..Len(silverItems.rows) :
                silverItems.rows[j]["order_id"] = silverOrders.rows[i2]["order_id"]
          /\ \E k \in 1..Len(customerStats.rows) :
                /\ customerStats.rows[k]["customer_id"]
                     = silverOrders.rows[i]["customer_id"]
                /\ customerStats.rows[k]["num_orders"] = 1
    /\ Len(dailySales.rows) = 1
    /\ dailySales.rows[1]["orders"] = 1

\* the first row of bronze/orders with order_id o
FirstOrder(o) ==
    bronzeOrders.rows[CHOOSE i \in 1..Len(bronzeOrders.rows) :
                        /\ bronzeOrders.rows[i]["order_id"] = o
                        /\ \A j \in 1..(i - 1) : bronzeOrders.rows[j]["order_id"] # o]

\* C7: a row of silver/orders whose delivered or purchase date is missing
\* or does not parse has days_to_deliver missing, any other row has the
\* number of whole days (the floor) of delivered minus purchase; and
\* avg_delivery_days of a date of gold/daily_sales is the sum over the
\* count of days_to_deliver of the matched order-item pairs of that date
\* whose days_to_deliver is not missing, and is missing (0 / 0) when there
\* is no such pair.
C7_NullPropagation ==
    /\ (IsTable(silverOrders) /\ IsTable(bronzeOrders)) =>
         \A k \in 1..Len(silverOrders.rows) :
            LET r == silverOrders.rows[k]
                f == FirstOrder(r["order_id"])
                pu == f["order_purchase_timestamp"]
                de == f["order_delivered_customer_date"]
                days == r["days_to_deliver"]
            IN  IF pu \in 0..MaxTime /\ de \in 0..MaxTime
                THEN /\ days # NaN
                     /\ days * TicksPerDay <= de - pu
                     /\ de - pu < (days + 1) * TicksPerDay
                ELSE days = NaN
    /\ IsTable(dailySales) =>
         \A k \in 1..Len(dailySales.rows) :
            LET g == dailySales.rows[k]
                Q == {p \in MatchesOn(g["date"]) :
                        silverOrders.rows[p[1]]["days_to_deliver"] # NaN}
            IN  /\ g["avg_delivery_days"]["den"] = Cardinality(Q)
                /\ g["avg_delivery_days"]["num"]
                     = SumFn(Q, [p \in Q |-> silverOrders.rows[p[1]]["days_to_deliver"]])

\* gold/daily_sales written with a date of three matched pairs, two of an
\* order delivered a day later and one of an order never delivered: the
\* mean is 2 / 2
C7_Witness ==
    /\ IsTable(dailySales)
    /\ \E k \in 1..Len(dailySales.rows) :
          LET P == MatchesOn(dailySales.rows[k]["date"])
          IN  /\ Cardinality(P) = 3
              /\ Cardinality({p \in P :
                    silverOrders.rows[p[1]]["days_to_deliver"] = NaN}) = 1
              /\ dailySales.rows[k]["avg_delivery_days"]["den"] = 2
              /\ dailySales.rows[k]["avg_delivery_days"]["num"] > 0

\* C8: every row of gold/customer_stats has num_orders >= 1, so that
\* avg_order_value = total_spent / num_orders has no zero denominator.
C8_NumOrdersPositive ==
    IsTable(customerStats) =>
      \A k \in 1..Len(customerStats.rows) :
         /\ customerStats.rows[k]["num_orders"] >= 1
         /\ customerStats.rows[k]["avg_order_value"]["den"] # 0

\* C9: gold/customer_stats has exactly one row for each customer_id (a
\* value, not a missing one) of an order that has an item, whether or not
\* silver/customers has that customer; its state is the customer_state of
\* the row of silver/customers with that customer_id, and missing when
\* there is no such row.
C9_LeftJoin ==
    IsTable(customerStats) =>
      LET g == customerStats.rows
          joined == {silverOrders.rows[p[1]]["customer_id"] : p \in Matches} \ {None}
      IN  /\ {g[k]["customer_id"] : k \in 1..Len(g)} = joined
          /\ Len(g) = Cardinality(joined)
          /\ \A k \in 1..Len(g) :
               LET known == {i \in 1..Len(silverCustomers.rows) :
                               silverCustomers.rows[i]["customer_id"]
                                 = g[k]["customer_id"]}
               IN  IF known = {} THEN g[k]["state"] = None
                   ELSE \A i \in known :
                           g[k]["state"] = silverCustomers.rows[i]["customer_state"]

\* gold/customer_stats written with a row of a customer that
\* silver/customers has not, its state missing and its spend counted, next
\* to a row of a customer that it has
C9_Witness ==
    /\ IsTable(customerStats)
    /\ \E k, l \in 1..Len(customerStats.rows) :
          /\ \A i \in 1..Len(silverCustomers.rows) :
                silverCustomers.rows[i]["customer_id"]
                  # customerStats.rows[k]["customer_id"]
          /\ customerStats.rows[k]["state"] = None
          /\ customerStats.rows[k]["total_spent"] > 0
          /\ customerStats.rows[l]["state"] = "SP"

====
